---------------------------- MODULE Spec2Model ----------------------------
(* Segmentation metrics of connectomics/utils/evaluate.py:                 *)
(* contingency_table, vi_tables, split_vi, voi (variation of information)  *)
(* and adapted_rand, on flattened label volumes, and get_binary_jaccard on *)
(* a foreground probability map.                                           *)
(*                                                                         *)
(* Numbers.  The code works in float64; the model works in exact           *)
(* arithmetic.  A finite number is (co[1] + SUM_p co[p]*log2(p)) / den     *)
(* for the odd primes p: 1, log2(3), log2(5), ... are linearly             *)
(* independent over the rationals, so two numbers are equal iff their      *)
(* normalised representations are equal.  Rounding is not modelled; the    *)
(* IEEE results of a division by zero (nan, inf) are.                      *)
(*                                                                         *)
(* Library behaviour the code relies on (numpy / scipy.sparse):            *)
(*  - np.bool is the bool dtype;                                           *)
(*  - coo_matrix((data, (i, j))) infers its shape as (max(i)+1, max(j)+1)  *)
(*    and raises ValueError on zero-sized index arrays; tocsc()/csr_matrix *)
(*    sum duplicate entries and keep explicitly stored zeros;              *)
(*  - a sparse matrix divided by a scalar s is multiplied by 1.0 / s,      *)
(*    which for the Python float 0.0 raises ZeroDivisionError;             *)
(*  - np.amax of an empty array raises ValueError;                         *)
(*  - numpy scalar division by zero yields nan or inf (with a warning).    *)
(*  - a Python float divided by a numpy integer is a numpy division;       *)
(*  - a failing assert statement raises AssertionError.                    *)
EXTENDS Integers, Sequences, FiniteSets, TLC

VARIABLES seg, gt, default_lists, call

vars == <<seg, gt, default_lists, call>>

-----------------------------------------------------------------------------
(* Bounds of the model *)

MaxLen == 2

MaxLabel == 2

Labels == 0 .. MaxLabel

\* the ignore lists a caller passes to contingency_table (as sets of labels)
IgnoreChoices == {{}, {0}, {1}}

\* the threshold lists a caller passes to get_binary_jaccard hold at most two
\* of these: one below 0, the two ends of (0, 1), two values inside
Thresholds ==
    {[num |-> -1, den |-> 2], [num |-> 0, den |-> 1], [num |-> 1, den |-> 4],
     [num |-> 1, den |-> 2], [num |-> 1, den |-> 1]}

\* the pairs (ignore list of the candidate, ignore list of the ground truth)
\* a caller passes to vi_tables, split_vi and voi: the defaults of voi, the
\* defaults of the other two, nothing ignored, a non-zero label ignored
IgnorePairs == {<<{}, {0}>>, <<{0}, {0}>>, <<{}, {}>>, <<{1}, {}>>}

-----------------------------------------------------------------------------
(* Exact numbers *)

RECURSIVE GCD(_, _)
GCD(a, b) == IF b = 0 THEN a ELSE GCD(b, a % b)

Abs(a) == IF a < 0 THEN -a ELSE a

IsPrime(p) == p > 1 /\ \A q \in 2 .. (p - 1) : p % q # 0

\* every integer the metrics take a logarithm of is a voxel count
OddPrimes == {p \in 3 .. MaxLen : IsPrime(p)}

Basis == {1} \cup OddPrimes

ZeroCo == [b \in Basis |-> 0]

\* the gcd of g and the coefficients co[b] of the odd primes b >= p
RECURSIVE GcdOver(_, _, _)
GcdOver(co, p, g) ==
    IF g = 1 \/ p > MaxLen THEN g
    ELSE IF p \in OddPrimes THEN GcdOver(co, p + 2, GCD(g, Abs(co[p])))
    ELSE GcdOver(co, p + 2, g)

Fin(d, co) == [k |-> "fin", den |-> d, co |-> co]

\* the number (co[1] + SUM_p co[p]*log2(p)) / d, d > 0, in lowest terms
Normalise(d, co) ==
    LET g == GcdOver(co, 3, GCD(d, Abs(co[1])))
    IN  Fin(d \div g, [b \in Basis |-> co[b] \div g])

Int2Num(n) == Fin(1, [b \in Basis |-> IF b = 1 THEN n ELSE 0])

Rat(n, d) == Normalise(d, Int2Num(n).co)

Zero == Fin(1, ZeroCo)

One == Fin(1, [b \in Basis |-> IF b = 1 THEN 1 ELSE 0])

NaN == [k |-> "nan", den |-> 1, co |-> ZeroCo]

PosInf == [k |-> "inf", den |-> 1, co |-> ZeroCo]

NegInf == [k |-> "ninf", den |-> 1, co |-> ZeroCo]

IsFin(x) == x.k = "fin"

IsRat(x) == IsFin(x) /\ \A b \in OddPrimes : x.co[b] = 0

IsZero(x) == IsFin(x) /\ x.co = ZeroCo

\* the sign of a rational or of an infinity (0 for nan)
Sign(x) ==
    CASE x.k = "nan" -> 0
      [] x.k = "inf" -> 1
      [] x.k = "ninf" -> -1
      [] OTHER -> IF x.co[1] > 0 THEN 1 ELSE IF x.co[1] < 0 THEN -1 ELSE 0

\* the infinity of sign sg
Inf(sg) == IF sg > 0 THEN PosInf ELSE NegInf

Neg(x) ==
    CASE x.k = "nan" -> NaN
      [] x.k = "inf" -> NegInf
      [] x.k = "ninf" -> PosInf
      [] OTHER -> Fin(x.den, [b \in Basis |-> -x.co[b]])

Add(x, y) ==
    IF x.k = "nan" \/ y.k = "nan" THEN NaN
    ELSE IF IsFin(x) /\ IsFin(y)
         THEN Normalise(x.den * y.den,
                        [b \in Basis |-> x.co[b] * y.den + y.co[b] * x.den])
    ELSE IF IsFin(x) THEN y
    ELSE IF IsFin(y) THEN x
    ELSE IF x.k = y.k THEN x ELSE NaN

Sub(x, y) == Add(x, Neg(y))

\* the product r * x of a rational r and a finite number x
MulRat(r, x) ==
    Normalise(r.den * x.den, [b \in Basis |-> r.co[1] * x.co[b]])

\* product; of two finite numbers at least one is rational
Mul(x, y) ==
    IF x.k = "nan" \/ y.k = "nan" THEN NaN
    ELSE IF IsFin(x) /\ IsFin(y)
         THEN IF IsRat(x) THEN MulRat(x, y) ELSE MulRat(y, x)
    ELSE IF IsZero(x) \/ IsZero(y) THEN NaN
    ELSE Inf(Sign(x) * Sign(y))

\* the reciprocal of a non-zero rational
Recip(y) ==
    IF y.co[1] > 0 THEN Fin(y.co[1], Int2Num(y.den).co)
    ELSE Fin(-y.co[1], Int2Num(-y.den).co)

\* IEEE quotient x / y of a number by a rational (numpy scalars and arrays)
Div(x, y) ==
    IF x.k = "nan" \/ y.k = "nan" THEN NaN
    ELSE IF IsFin(x) /\ IsFin(y)
         THEN IF IsZero(y)
              THEN IF IsZero(x) THEN NaN ELSE Inf(Sign(x))
              ELSE MulRat(Recip(y), x)
    ELSE IF IsFin(x) THEN Zero
    ELSE IF IsFin(y) THEN Inf(Sign(x) * (IF y.co[1] < 0 THEN -1 ELSE 1))
    ELSE NaN

\* exponent of the prime p in n >= 1
RECURSIVE Val(_, _)
Val(p, n) == IF n % p = 0 THEN 1 + Val(p, n \div p) ELSE 0

\* log2 of the integer n >= 1, by its prime factorisation (log2(2) = 1)
Log2Int(n) == Fin(1, [b \in Basis |-> IF b = 1 THEN Val(2, n) ELSE Val(b, n)])

\* np.log2 of a non-zero number
Log2(x) ==
    CASE x.k = "nan" -> NaN
      [] x.k = "inf" -> PosInf
      [] x.k = "ninf" -> NaN
      [] OTHER -> IF x.co[1] < 0 THEN NaN
                  ELSE Sub(Log2Int(x.co[1]), Log2Int(x.den))

-----------------------------------------------------------------------------
(* Arrays and sparse matrices *)

\* f as an explicit table of its values (TLC otherwise recomputes f[x] at
\* every use)
Tabulate(f) == f @@ <<>>

\* A call returns Ok(value) or raises: Err(name of the exception)
Ok(v) == [outcome |-> "ok", value |-> v]

Err(e) == [outcome |-> e]

\* an optional argument: None, or a value
None == [isNone |-> TRUE]

Some(v) == [isNone |-> FALSE, val |-> v]

\* A label volume is the sequence of its voxels in ravel() order; every
\* other array is a function on 0 .. n-1.  A sparse matrix is its shape and
\* its stored entries (explicit zeros included), indexed from 0.
Size(a) == Cardinality(DOMAIN a)

Range(a) == {a[k] : k \in DOMAIN a}

\* np.amax of a non-empty array
AMax(a) == CHOOSE m \in Range(a) : \A v \in Range(a) : v <= m

RECURSIVE SumNum(_, _)
SumNum(f, S) ==
    IF S = {} THEN Zero
    ELSE LET e == CHOOSE x \in S : TRUE
         IN  Add(f[e], SumNum(f, S \ {e}))

\* a.sum() of an array, m.sum() of a sparse matrix
ArrSum(a) == SumNum(a, DOMAIN a)

MatSum(m) == SumNum(m.ent, DOMAIN m.ent)

\* m.sum(axis=1) and m.sum(axis=0)
RowSums(m) ==
    Tabulate([i \in 0 .. (m.shape[1] - 1) |->
                 SumNum(m.ent, {ij \in DOMAIN m.ent : ij[1] = i})])

ColSums(m) ==
    Tabulate([j \in 0 .. (m.shape[2] - 1) |->
                 SumNum(m.ent, {ij \in DOMAIN m.ent : ij[2] = j})])

\* the last triple at index ij only: duplicates overwrite
LastDup(data, rows, cols, ij, n) ==
    LET k == CHOOSE t \in 1 .. n :
                 /\ <<rows[t], cols[t]>> = ij
                 /\ \A u \in (t + 1) .. n : <<rows[u], cols[u]>> # ij
    IN  data[k]

\* entries of the triples (data[k], rows[k], cols[k]), k <= n, at index ij,
\* summed: duplicate entries add up when scipy converts to csc / csr
RECURSIVE SumDup(_, _, _, _, _)
SumDup(data, rows, cols, ij, n) ==
    IF n = 0 THEN 0
    ELSE SumDup(data, rows, cols, ij, n - 1)
         + (IF <<rows[n], cols[n]>> = ij THEN data[n] ELSE 0)

\* sparse.coo_matrix((data, (rows, cols)), shape).tocsc(), and
\* sparse.csr_matrix((data, (rows, cols)), shape), for non-empty triples
FromTriples(data, rows, cols, shape) ==
    [shape |-> shape,
     ent |-> Tabulate([ij \in {<<rows[k], cols[k]>> : k \in 1 .. Len(rows)} |->
                          Int2Num(SumDup(data, rows, cols, ij, Len(rows)))])]

\* the shape coo_matrix infers from its index arrays
InferShape(rows, cols) == <<AMax(rows) + 1, AMax(cols) + 1>>

\* sparse matrix times scalar
MatScale(m, r) ==
    [shape |-> m.shape,
     ent |-> Tabulate([ij \in DOMAIN m.ent |-> Mul(r, m.ent[ij])])]

\* the division left out: the matrix as it is
MatDivScalarSkipped(m, s) == Ok(m)

\* element-wise IEEE division, as for a dense numpy array: no exception
MatDivScalarIEEE(m, s) ==
    Ok([shape |-> m.shape,
        ent |-> Tabulate([ij \in DOMAIN m.ent |-> Div(m.ent[ij], s)])])

\* sparse matrix divided by a Python float: scipy multiplies by 1.0 / s
MatDivScalar(m, s) ==
    IF IsZero(s) THEN Err("ZeroDivisionError")
    ELSE Ok(MatScale(m, Div(One, s)))

\* m[r0:r1, c0:c1]
Slice(m, r0, r1, c0, c1) ==
    [shape |-> <<r1 - r0, c1 - c0>>,
     ent |-> Tabulate([ij \in {<<e[1] - r0, e[2] - c0>> :
                                 e \in {f \in DOMAIN m.ent :
                                          /\ r0 <= f[1] /\ f[1] < r1
                                          /\ c0 <= f[2] /\ f[2] < c1}} |->
                          m.ent[<<ij[1] + r0, ij[2] + c0>>]])]

RECURSIVE SortedSeq(_)
SortedSeq(S) ==
    IF S = {} THEN <<>>
    ELSE LET m == CHOOSE x \in S : \A y \in S : x <= y
         IN  <<m>> \o SortedSeq(S \ {m})

\* a.nonzero()[0]: the indices of the non-zero elements, ascending
NonZero(a) ==
    LET s == SortedSeq({i \in DOMAIN a : ~IsZero(a[i])})
    IN  Tabulate([t \in 0 .. (Len(s) - 1) |-> s[t + 1]])

\* a[idx] for an index array idx
Take(a, idx) == Tabulate([t \in DOMAIN idx |-> a[idx[t]]])

\* m[rows, :][:, cols] for index arrays rows, cols
SubMatrix(m, rows, cols) ==
    [shape |-> <<Size(rows), Size(cols)>>,
     ent |-> Tabulate([ab \in {cd \in (DOMAIN rows) \X (DOMAIN cols) :
                                 <<rows[cd[1]], cols[cd[2]]>> \in DOMAIN m.ent} |->
                          m.ent[<<rows[ab[1]], cols[ab[2]]>>]])]

\* z = np.zeros(n); z[idx] = vals
Scatter(n, idx, vals) ==
    Tabulate([i \in 0 .. (n - 1) |->
                 IF \E t \in DOMAIN idx : idx[t] = i
                 THEN vals[CHOOSE t \in DOMAIN idx : idx[t] = i]
                 ELSE Zero])

-----------------------------------------------------------------------------
(* The metrics *)

\* the default values of the ignore arguments in the signatures
voi_default_ignore_reconstruction == {}

vi_tables_default_ignore_x == {0}

vi_tables_default_ignore_y == {0}

voi_default_ignore_groundtruth == {0}

\* no label of the candidate ignored by default
contingency_table_ignore_seg_empty == {}

contingency_table_default_ignore_seg == {0}

contingency_table_default_ignore_gt == {0}

\* the weight np.ones gives every voxel, zeroed by data[ignored] = 0
VoxelWeight(ignored) == IF ignored THEN 0 ELSE 1

\* lines 253-255: the table, normalised on request
contingency_table_return(cont, norm) ==
    IF norm THEN MatDivScalar(cont, MatSum(cont)) ELSE Ok(cont)

\* lines 245-252: the weights and the table of two non-empty volumes
contingency_table_cont(segr, gtr, ignore_seg, ignore_gt) ==
    FromTriples([k \in 1 .. Len(gtr) |->
                    VoxelWeight(segr[k] \in ignore_seg \/ gtr[k] \in ignore_gt)],
                segr, gtr, InferShape(segr, gtr))

contingency_table(s, g, ignore_seg, ignore_gt, norm) ==
    IF Len(s) = 0 THEN Err("ValueError")
    ELSE contingency_table_return(
             contingency_table_cont(s, g, ignore_seg, ignore_gt), norm)

\* the copy of the matrix returned undivided
divide_columns_skipped(matrix, row) == matrix

\* out[i, j] = matrix[i, j] / row[j] on the stored non-zero entries
divide_columns(matrix, row) ==
    [shape |-> matrix.shape,
     ent |-> Tabulate([ij \in DOMAIN matrix.ent |->
                          LET v == matrix.ent[ij]
                          IN  IF IsZero(v) THEN v ELSE Div(v, row[ij[2]])])]

\* out[i, j] = matrix[i, j] / column[i] on the stored non-zero entries
divide_rows(matrix, column) ==
    [shape |-> matrix.shape,
     ent |-> Tabulate([ij \in DOMAIN matrix.ent |->
                          LET v == matrix.ent[ij]
                          IN  IF IsZero(v) THEN v ELSE Div(v, column[ij[1]])])]

\* x * log2(x) on the stored non-zero entries; zeros are left as they are
xlogx(x) ==
    [shape |-> x.shape,
     ent |-> Tabulate([ij \in DOMAIN x.ent |->
                          LET v == x.ent[ij]
                          IN  IF IsZero(v) THEN v ELSE Mul(v, Log2(v))])]

\* the storage formats the three functions below treat as sparse
SparseFormats == {"csc", "csr"}

\* lines 316-332: the matrix the caller passed, after divide_rows returned.
\* out is the caller's matrix only for in_place, and a csr matrix is converted
\* (out = out.tocsc(), a new matrix) before anything is written
divide_rows_matrix(matrix, format, column, in_place) ==
    IF in_place /\ format = "csc" THEN divide_rows(matrix, column) ELSE matrix

\* lines 277-293: the same for divide_columns, which converts a csc matrix
divide_columns_matrix(matrix, format, row, in_place) ==
    IF in_place /\ format = "csr" THEN divide_columns(matrix, row) ELSE matrix

\* lines 355-360: the matrix y that xlogx works on and returns
xlogx_y(x, out, in_place) ==
    IF in_place THEN x ELSE IF out.isNone THEN x ELSE out.val

\* lines 355-367: xlogx(x, out, in_place): the matrix returned, and the
\* caller's x and out after the call (y.data is written in place)
xlogx_call(x, out, in_place) ==
    [y |-> xlogx(xlogx_y(x, out, in_place)),
     x |-> IF in_place THEN xlogx(x) ELSE x,
     out |-> IF ~in_place /\ ~out.isNone THEN Some(xlogx(out.val)) ELSE out]

\* lines 205-215: the log conditional probabilities, the entropies, the list
vi_tables_return(pxy, px, py, lpygx, lpxgy) ==
    <<pxy, px, py,
      Tabulate([j \in DOMAIN py |-> Neg(Mul(py[j], lpxgy[j]))]),
      Tabulate([i \in DOMAIN px |-> Neg(Mul(px[i], lpygx[i]))]),
      lpygx, lpxgy>>

\* lines 201-212: the non-zero part of the table and the sums of p log p
vi_tables_nz(pxy, px, py, nzx, nzy, nzpxy) ==
    vi_tables_return(pxy, px, py,
        Scatter(Size(px), nzx,
                RowSums(xlogx(divide_rows(nzpxy, Take(px, nzx))))),
        Scatter(Size(py), nzy,
                ColSums(xlogx(divide_columns(nzpxy, Take(py, nzy))))))

\* lines 199-203: the rows and columns with mass
vi_tables_marginals(pxy, px, py, nzx, nzy) ==
    vi_tables_nz(pxy, px, py, nzx, nzy, SubMatrix(pxy, nzx, nzy))

\* lines 195-215: vi_tables from the normalised table on
vi_tables_of(pxy, px, py) ==
    vi_tables_marginals(pxy, px, py, NonZero(px), NonZero(py))

\* cont /= total: the quotient written into the matrix the caller passed
vi_tables_pxy_in_place(cont) ==
    [pxy |-> MatDivScalar(cont, MatSum(cont)),
     cont |-> IF IsZero(MatSum(cont)) THEN cont
              ELSE MatScale(cont, Div(One, MatSum(cont)))]

\* lines 190-193: cont is the caller's matrix x itself; pxy = cont / total
\* is a new matrix, and cont keeps its entries
vi_tables_pxy(cont) ==
    [pxy |-> MatDivScalar(cont, MatSum(cont)), cont |-> cont]

\* the table vi_tables works on, or the exception of building it
vi_tables_after(r) ==
    IF r.outcome # "ok" THEN r
    ELSE Ok(vi_tables_of(r.value, RowSums(r.value), ColSums(r.value)))

\* y = Some(label volume), or None and x is a contingency table
vi_tables(x, y, ignore_x, ignore_y) ==
    vi_tables_after(IF ~y.isNone
                    THEN contingency_table(x, y.val, ignore_x, ignore_y, TRUE)
                    ELSE vi_tables_pxy(x).pxy)

\* the two sums in the other order
split_vi_result_swapped(hxgy, hygx) == <<ArrSum(hxgy), ArrSum(hygx)>>

\* the pair split_vi builds from the conditional entropies it unpacked
split_vi_result(hxgy, hygx) == <<ArrSum(hygx), ArrSum(hxgy)>>

split_vi_after(r) ==
    IF r.outcome # "ok" THEN r
    ELSE Ok(split_vi_result(r.value[4], r.value[5]))

split_vi(x, y, ignore_x, ignore_y) ==
    split_vi_after(vi_tables(x, y, ignore_x, ignore_y))

\* the pair of split_vi passed on as it is
voi_result_unswapped(hyxg, hxgy) == <<hyxg, hxgy>>

\* the pair voi returns from the pair (hyxg, hxgy) it unpacked
voi_result(hyxg, hxgy) == <<hxgy, hyxg>>

voi_after(r) ==
    IF r.outcome # "ok" THEN r
    ELSE Ok(voi_result(r.value[1], r.value[2]))

voi(reconstruction, groundtruth, ignore_reconstruction, ignore_groundtruth) ==
    voi_after(split_vi(reconstruction, Some(groundtruth),
                       ignore_reconstruction, ignore_groundtruth))

\* b.multiply(b), a * a: element-wise squares
MatSquare(m) ==
    [shape |-> m.shape,
     ent |-> Tabulate([ij \in DOMAIN m.ent |-> Mul(m.ent[ij], m.ent[ij])])]

\* the array itself, not squared
ArrNotSquared(a) == a

ArrSquare(a) == Tabulate([i \in DOMAIN a |-> Mul(a[i], a[i])])

\* the rows of p_ij that adapted_rand keeps: ground-truth labels 1 and up
adapted_rand_first_row == 1

\* np.sum(c) without the division by n
adapted_rand_unlabelled_undivided(c, n) == MatSum(c)

\* np.sum(c) / n: the share of voxels the candidate leaves unlabelled
adapted_rand_unlabelled(c, n) == Div(MatSum(c), Int2Num(n))

\* lines 76-82: the error from precision and recall, and what is returned
adapted_rand_return(are, precision, recall, all_stats) ==
    Ok(IF all_stats THEN <<are, precision, recall>> ELSE are)

\* the F-score returned in place of the error
adapted_rand_are_fscore(fScore) == fScore

\* line 77: are = 1.0 - fScore
adapted_rand_are(fScore) == Sub(One, fScore)

adapted_rand_fscore(precision, recall, all_stats) ==
    adapted_rand_return(
        adapted_rand_are(Div(Mul(Mul(Int2Num(2), precision), recall),
                             Add(precision, recall))),
        precision, recall, all_stats)

\* lines 73-74
adapted_rand_scores(sumA, sumB, sumAB, all_stats) ==
    adapted_rand_fscore(Div(sumAB, sumB), Div(sumAB, sumA), all_stats)

\* lines 64-71: a_i, b_i, d and the three sums
adapted_rand_sums(a, b, c, n, all_stats) ==
    adapted_rand_scores(
        ArrSum(ArrSquare(RowSums(a))),
        Add(ArrSum(ArrSquare(ColSums(b))), adapted_rand_unlabelled(c, n)),
        Add(MatSum(MatSquare(b)), adapted_rand_unlabelled(c, n)),
        all_stats)

\* lines 61-63: the slices a, b and c of p_ij
adapted_rand_slices(p_ij, n_labels_A, n_labels_B, n, all_stats) ==
    adapted_rand_sums(
        Slice(p_ij, adapted_rand_first_row, n_labels_A, 0, n_labels_B),
        Slice(p_ij, adapted_rand_first_row, n_labels_A, 1, n_labels_B),
        Slice(p_ij, adapted_rand_first_row, n_labels_A, 0, 1),
        n, all_stats)

\* lines 53-59: the table p_ij of ground truth (rows) against candidate
adapted_rand_table(segA, segB, n_labels_A, n_labels_B, all_stats) ==
    adapted_rand_slices(
        FromTriples([k \in 1 .. Len(segA) |-> 1], segA, segB,
                    <<n_labels_A, n_labels_B>>),
        n_labels_A, n_labels_B, Len(segA), all_stats)

adapted_rand(s, g, all_stats) ==
    IF Len(g) = 0 THEN Err("ValueError")
    ELSE adapted_rand_table(g, s, AMax(g) + 1, AMax(s) + 1, all_stats)

-----------------------------------------------------------------------------
(* Binary segmentation: confusion_matrix and get_binary_jaccard *)

\* x < y on rational numbers (the denominators are positive)
Less(x, y) == x.co[1] * y.den < y.co[1] * x.den

\* np.sum of a boolean mask over the voxels
CountWhere(mask) == Cardinality({k \in DOMAIN mask : mask[k]})

\* the four counts from the mask pred > thres
confusion_matrix_counts(g, above) ==
    [TP |-> CountWhere([k \in DOMAIN g |-> g[k] = 1 /\ above[k]]),
     FP |-> CountWhere([k \in DOMAIN g |-> g[k] = 0 /\ above[k]]),
     TN |-> CountWhere([k \in DOMAIN g |-> g[k] = 0 /\ ~above[k]]),
     FN |-> CountWhere([k \in DOMAIN g |-> g[k] = 1 /\ ~above[k]])]

confusion_matrix(pred, g, thres) ==
    confusion_matrix_counts(g,
        Tabulate([k \in DOMAIN g |-> Less(thres, pred[k])]))

\* float(p) / q with q a numpy integer: the IEEE quotient
FloatDiv(p, q) == Div(Int2Num(p), Int2Num(q))

\* lines 403-408: the row [iou_fg, iou, precision, recall] of one threshold
get_binary_jaccard_row(cm) ==
    <<FloatDiv(cm.TP, cm.TP + cm.FP + cm.FN),
      Div(Add(FloatDiv(cm.TP, cm.TP + cm.FP + cm.FN),
              FloatDiv(cm.TN, cm.TN + cm.FP + cm.FN)), Int2Num(2)),
      FloatDiv(cm.TP, cm.TP + cm.FP),
      FloatDiv(cm.TP, cm.TP + cm.FN)>>

\* the assertion passes on 0.0 <= t <= 1.0
get_binary_jaccard_assert_closed(t) == ~Less(t, Zero) /\ ~Less(One, t)

\* line 400: the condition of the assertion, 0.0 < t < 1.0
get_binary_jaccard_assert(t) == Less(Zero, t) /\ Less(t, One)

\* lines 399-409: the loop from position tid of thres on, and the return
RECURSIVE get_binary_jaccard_loop(_, _, _, _, _)
get_binary_jaccard_loop(pred, g, thres, tid, score) ==
    IF tid > Len(thres) THEN Ok(score)
    ELSE IF ~get_binary_jaccard_assert(thres[tid]) THEN Err("AssertionError")
    ELSE get_binary_jaccard_loop(pred, g, thres, tid + 1,
             [score EXCEPT ![tid] =
                 get_binary_jaccard_row(confusion_matrix(pred, g, thres[tid]))])

\* the 4 scores of a row of np.zeros
ZeroRow == <<Zero, Zero, Zero, Zero>>

\* the default value of thres in the signature: [0.5]
get_binary_jaccard_default_thres == <<Rat(1, 2)>>

get_binary_jaccard(pred, g, thres) ==
    get_binary_jaccard_loop(pred, g, thres, 1, [k \in DOMAIN thres |-> ZeroRow])

-----------------------------------------------------------------------------
(* The caller: two label volumes of the same size, the lists the function   *)
(* signatures create once as default values and every call without the      *)
(* argument shares, and one call at a time                                  *)

Volumes == UNION {[1 .. n -> Labels] : n \in 0 .. MaxLen}

Init ==
    /\ seg \in Volumes
    /\ gt \in Volumes
    /\ Len(seg) = Len(gt)
    /\ default_lists =
           [contingency_table |->
                [ignore_seg |-> contingency_table_default_ignore_seg,
                 ignore_gt |-> contingency_table_default_ignore_gt],
            vi_tables |-> [ignore_x |-> vi_tables_default_ignore_x,
                           ignore_y |-> vi_tables_default_ignore_y],
            voi |-> [ignore_reconstruction |-> voi_default_ignore_reconstruction,
                     ignore_groundtruth |-> voi_default_ignore_groundtruth],
            get_binary_jaccard |-> [thres |-> get_binary_jaccard_default_thres]]
    /\ call = [fn |-> "none"]

\* a call has returned (or raised) and the caller still holds its result
InCall == call.fn # "none"

CallContingencyTable ==
    /\ ~InCall
    /\ \E is \in IgnoreChoices, ig \in IgnoreChoices, norm \in BOOLEAN :
        /\ call' = [fn |-> "contingency_table", defaults |-> FALSE,
                    ignore_seg |-> is, ignore_gt |-> ig, norm |-> norm,
                    ret |-> contingency_table(seg, gt, is, ig, norm)]
        /\ UNCHANGED <<seg, gt, default_lists>>

\* contingency_table(seg, gt, norm=...) with the ignore arguments left out
CallContingencyTableDefaults ==
    /\ ~InCall
    /\ \E norm \in BOOLEAN :
        /\ call' = [fn |-> "contingency_table", defaults |-> TRUE,
                    ignore_seg |-> default_lists.contingency_table.ignore_seg,
                    ignore_gt |-> default_lists.contingency_table.ignore_gt,
                    norm |-> norm,
                    ret |-> contingency_table(seg, gt,
                                default_lists.contingency_table.ignore_seg,
                                default_lists.contingency_table.ignore_gt, norm)]
        /\ UNCHANGED <<seg, gt, default_lists>>

CallViTables ==
    /\ ~InCall
    /\ \E ip \in IgnorePairs :
        LET is == ip[1]
            ig == ip[2]
        IN
        /\ call' = [fn |-> "vi_tables", mode |-> "labels",
                    ignore_seg |-> is, ignore_gt |-> ig,
                    ret |-> vi_tables(seg, Some(gt), is, ig)]
        /\ UNCHANGED <<seg, gt, default_lists>>

\* the table the caller builds with contingency_table(seg, gt, norm=norm)
CallersTable(norm) ==
    contingency_table(seg, gt, default_lists.contingency_table.ignore_seg,
                      default_lists.contingency_table.ignore_gt, norm)

\* vi_tables(cont) on a table the caller built with contingency_table
CallViTablesOnTable ==
    /\ ~InCall
    /\ \E norm \in BOOLEAN :
        LET t == CallersTable(norm)
        IN  /\ t.outcome = "ok"
            /\ call' = [fn |-> "vi_tables", mode |-> "table", norm |-> norm,
                        x |-> t.value, x_after |-> vi_tables_pxy(t.value).cont,
                        ret |-> vi_tables(t.value, None,
                                         default_lists.vi_tables.ignore_x,
                                         default_lists.vi_tables.ignore_y)]
            /\ UNCHANGED <<seg, gt, default_lists>>

CallSplitVi ==
    /\ ~InCall
    /\ \E ip \in IgnorePairs :
        LET is == ip[1]
            ig == ip[2]
        IN
        /\ call' = [fn |-> "split_vi",
                    ignore_seg |-> is, ignore_gt |-> ig,
                    ret |-> split_vi(seg, Some(gt), is, ig)]
        /\ UNCHANGED <<seg, gt, default_lists>>

CallVoi ==
    /\ ~InCall
    /\ \E ip \in IgnorePairs :
        LET is == ip[1]
            ig == ip[2]
        IN
        /\ call' = [fn |-> "voi", defaults |-> FALSE,
                    ignore_seg |-> is, ignore_gt |-> ig,
                    ret |-> voi(seg, gt, is, ig)]
        /\ UNCHANGED <<seg, gt, default_lists>>

\* voi(seg, gt) with the ignore arguments left out
CallVoiDefaults ==
    /\ ~InCall
    /\ call' = [fn |-> "voi", defaults |-> TRUE,
                ignore_seg |-> default_lists.voi.ignore_reconstruction,
                ignore_gt |-> default_lists.voi.ignore_groundtruth,
                ret |-> voi(seg, gt, default_lists.voi.ignore_reconstruction,
                            default_lists.voi.ignore_groundtruth)]
    /\ UNCHANGED <<seg, gt, default_lists>>

CallAdaptedRand ==
    /\ ~InCall
    /\ \E all_stats \in BOOLEAN :
        /\ call' = [fn |-> "adapted_rand", all_stats |-> all_stats,
                    ret |-> adapted_rand(seg, gt, all_stats)]
        /\ UNCHANGED <<seg, gt, default_lists>>

\* the shapes of two axes an array of n elements can have
Shapes(n) == {sh \in (1 .. n) \X (1 .. n) : sh[1] * sh[2] = n}

\* data.reshape(shape): the same elements, in the same order, under a shape
Reshape(data, shape) == [shape |-> shape, flat |-> data]

\* a.ravel(), np.ravel(a): the elements of a in one axis
ravel(a) == a.flat

\* the axes of a shape in the opposite order
Transposed(sh) == [d \in DOMAIN sh |-> sh[Len(sh) + 1 - d]]

\* contingency_table(seg, gt), voi(seg, gt) or adapted_rand(seg, gt) on the
\* candidate under any of its shapes and the ground truth under the
\* transposed shape (2x3 against 3x2)
CallOnReshaped ==
    /\ ~InCall
    /\ \E ss \in Shapes(Len(seg)) :
        LET s == Reshape(seg, ss)
            g == Reshape(gt, Transposed(ss))
        IN
        /\ \/ call' = [fn |-> "contingency_table", defaults |-> TRUE,
                        ignore_seg |-> default_lists.contingency_table.ignore_seg,
                        ignore_gt |-> default_lists.contingency_table.ignore_gt,
                        norm |-> TRUE, seg_shape |-> s.shape, gt_shape |-> g.shape,
                        ret |-> contingency_table(ravel(s), ravel(g),
                                    default_lists.contingency_table.ignore_seg,
                                    default_lists.contingency_table.ignore_gt,
                                    TRUE)]
           \/ call' = [fn |-> "voi", defaults |-> TRUE,
                        ignore_seg |-> default_lists.voi.ignore_reconstruction,
                        ignore_gt |-> default_lists.voi.ignore_groundtruth,
                        seg_shape |-> s.shape, gt_shape |-> g.shape,
                        ret |-> voi(ravel(s), ravel(g),
                                    default_lists.voi.ignore_reconstruction,
                                    default_lists.voi.ignore_groundtruth)]
           \/ call' = [fn |-> "adapted_rand", all_stats |-> FALSE,
                        seg_shape |-> s.shape, gt_shape |-> g.shape,
                        ret |-> adapted_rand(ravel(s), ravel(g), FALSE)]
        /\ UNCHANGED <<seg, gt, default_lists>>

\* divide_rows(cont, px, in_place) on the caller's normalised table, in
\* either sparse format, and its row sums
CallDivideRows ==
    /\ ~InCall
    /\ \E in_place \in BOOLEAN, format \in SparseFormats,
          t \in {CallersTable(TRUE)} :
        /\ t.outcome = "ok"
        /\ call' = [fn |-> "divide_rows", in_place |-> in_place,
                    format |-> format, x |-> t.value,
                    x_after |-> divide_rows_matrix(t.value, format,
                                    RowSums(t.value), in_place),
                    ret |-> Ok(divide_rows(t.value, RowSums(t.value)))]
        /\ UNCHANGED <<seg, gt, default_lists>>

\* divide_columns(cont, py, in_place) on the same table and its column sums
CallDivideColumns ==
    /\ ~InCall
    /\ \E in_place \in BOOLEAN, format \in SparseFormats,
          t \in {CallersTable(TRUE)} :
        /\ t.outcome = "ok"
        /\ call' = [fn |-> "divide_columns", in_place |-> in_place,
                    format |-> format, x |-> t.value,
                    x_after |-> divide_columns_matrix(t.value, format,
                                    ColSums(t.value), in_place),
                    ret |-> Ok(divide_columns(t.value, ColSums(t.value)))]
        /\ UNCHANGED <<seg, gt, default_lists>>

\* xlogx(pxy, out, in_place) on the caller's normalised table, out left out
\* or the table of counts (a matrix of the same shape)
CallXlogx ==
    /\ ~InCall
    /\ \E in_place \in BOOLEAN, with_out \in BOOLEAN,
          t \in {CallersTable(TRUE)}, o \in {CallersTable(FALSE)} :
        /\ t.outcome = "ok"
        /\ \E r \in {xlogx_call(t.value,
                                IF with_out THEN Some(o.value) ELSE None,
                                in_place)} :
               call' = [fn |-> "xlogx", in_place |-> in_place,
                        out |-> IF with_out THEN Some(o.value) ELSE None,
                        x |-> t.value, x_after |-> r.x, out_after |-> r.out,
                        ret |-> Ok(r.y)]
        /\ UNCHANGED <<seg, gt, default_lists>>

\* a threshold as a number
Threshold(t) == Rat(t.num, t.den)

\* the threshold lists of at most two thresholds
ThresholdLists ==
    {<<>>} \cup {<<Threshold(t)>> : t \in Thresholds}
           \cup {<<Threshold(t), Threshold(u)>> : t, u \in Thresholds}

\* the candidate volume read as a foreground probability map: label l
\* stands for the probability l / MaxLabel
Probabilities(s) == [k \in DOMAIN s |-> Rat(s[k], MaxLabel)]

CallGetBinaryJaccard ==
    /\ ~InCall
    /\ \E thres \in ThresholdLists :
        /\ call' = [fn |-> "get_binary_jaccard", thres |-> thres,
                    ret |-> get_binary_jaccard(Probabilities(seg), gt, thres)]
        /\ UNCHANGED <<seg, gt, default_lists>>

\* get_binary_jaccard(pred, gt) with the thresholds left out
CallGetBinaryJaccardDefault ==
    /\ ~InCall
    /\ call' = [fn |-> "get_binary_jaccard",
                thres |-> default_lists.get_binary_jaccard.thres,
                ret |-> get_binary_jaccard(Probabilities(seg), gt,
                            default_lists.get_binary_jaccard.thres)]
    /\ UNCHANGED <<seg, gt, default_lists>>

\* the caller drops the result; the volumes stay for the next call
Return ==
    /\ InCall
    /\ call' = [fn |-> "none"]
    /\ UNCHANGED <<seg, gt, default_lists>>

Next ==
    \/ CallContingencyTable
    \/ CallContingencyTableDefaults
    \/ CallViTables
    \/ CallViTablesOnTable
    \/ CallSplitVi
    \/ CallVoi
    \/ CallVoiDefaults
    \/ CallAdaptedRand
    \/ CallGetBinaryJaccard
    \/ CallGetBinaryJaccardDefault
    \/ CallOnReshaped
    \/ CallDivideRows
    \/ CallDivideColumns
    \/ CallXlogx
    \/ Return

Spec == Init /\ [][Next]_vars

-----------------------------------------------------------------------------
(* Properties *)

\* m[i, j], zero where nothing is stored
At(m, i, j) == IF <<i, j>> \in DOMAIN m.ent THEN m.ent[<<i, j>>] ELSE Zero

Voxels == 1 .. Len(seg)

MaxOf(a) == CHOOSE m \in Range(a) : \A v \in Range(a) : v <= m

\* voxel k counts: neither of its labels is in the ignore sets
Counted(k, is, ig) == seg[k] \notin is /\ gt[k] \notin ig

NumCounted(i, j, is, ig) ==
    Cardinality({k \in Voxels : seg[k] = i /\ gt[k] = j /\ Counted(k, is, ig)})

Returned == InCall /\ call.ret.outcome = "ok"

Raised == InCall /\ call.ret.outcome # "ok"

\* C1: for non-empty volumes, contingency_table(seg, gt, ignore_seg,
\* ignore_gt, norm=False) returns a matrix of shape (max(seg)+1, max(gt)+1),
\* the maxima over all voxels, whose entry [i, j] is the number of voxels k
\* with seg[k] = i, gt[k] = j, seg[k] not in ignore_seg and gt[k] not in
\* ignore_gt (equal pairs add up).
C1_TableCounts ==
    (call.fn = "contingency_table" /\ ~call.norm /\ Len(seg) > 0) =>
        /\ Returned
        /\ call.ret.value.shape = <<MaxOf(seg) + 1, MaxOf(gt) + 1>>
        /\ DOMAIN call.ret.value.ent \subseteq
               (0 .. MaxOf(seg)) \X (0 .. MaxOf(gt))
        /\ \A i \in 0 .. MaxOf(seg), j \in 0 .. MaxOf(gt) :
               At(call.ret.value, i, j) =
                   Int2Num(NumCounted(i, j, call.ignore_seg, call.ignore_gt))

\* an ignored voxel alone carries the largest seg label, so it sets the
\* number of rows, and another voxel is counted
C1_Witness ==
    /\ call.fn = "contingency_table" /\ ~call.norm /\ Returned
    /\ \E k \in Voxels :
           /\ ~Counted(k, call.ignore_seg, call.ignore_gt)
           /\ \A u \in Voxels \ {k} : seg[u] < seg[k]
           /\ call.ret.value.shape[1] = seg[k] + 1
    /\ \E k \in Voxels :
           At(call.ret.value, seg[k], gt[k]) = One

\* C2: the entries of a table returned by contingency_table(norm=True) sum
\* to 1, and so do the table pxy and the marginals px and py of vi_tables.
C2_UnitMass ==
    /\ (call.fn = "contingency_table" /\ call.norm /\ Returned) =>
           MatSum(call.ret.value) = One
    /\ (call.fn = "vi_tables" /\ Returned) =>
           /\ MatSum(call.ret.value[1]) = One
           /\ ArrSum(call.ret.value[2]) = One
           /\ ArrSum(call.ret.value[3]) = One

\* vi_tables on label volumes with two counted voxels in different rows of
\* the table
C2_Witness ==
    /\ call.fn = "vi_tables" /\ call.mode = "labels" /\ Returned
    /\ \E i \in DOMAIN call.ret.value[2], j \in DOMAIN call.ret.value[2] :
           /\ i # j
           /\ call.ret.value[2][i] = Rat(1, 2)
           /\ call.ret.value[2][j] = Rat(1, 2)

\* no voxel counts (true of the empty volume too)
AllIgnored(is, ig) == \A k \in Voxels : ~Counted(k, is, ig)

\* C3: when every voxel is ignored, or the volumes are empty,
\* contingency_table(norm=True) and voi raise instead of returning.
C3_ZeroMassRaises ==
    /\ (/\ call.fn = "contingency_table" /\ call.norm
        /\ AllIgnored(call.ignore_seg, call.ignore_gt)) => Raised
    /\ (call.fn = "voi" /\ AllIgnored(call.ignore_seg, call.ignore_gt)) =>
           Raised

\* voi on non-empty volumes all of whose voxels are ignored
C3_Witness ==
    /\ call.fn = "voi" /\ Len(seg) > 0
    /\ AllIgnored(call.ignore_seg, call.ignore_gt)
    /\ call.ret.outcome = "ZeroDivisionError"

\* C4 as stated: with the ignore arguments left out, contingency_table
\* ignores no seg label and only gt label 0.
C4_DefaultsAsStated ==
    (call.fn = "contingency_table" /\ call.defaults /\ ~call.norm /\ Returned) =>
        \A i \in 0 .. MaxOf(seg), j \in 0 .. MaxOf(gt) :
            At(call.ret.value, i, j) = Int2Num(NumCounted(i, j, {}, {0}))

\* C4 amended: with the ignore arguments left out, contingency_table
\* ignores label 0 of the candidate and label 0 of the ground truth: a voxel
\* has weight 0 iff its seg label or its gt label is 0.
C4_DefaultsIgnoreZeroInBoth ==
    (call.fn = "contingency_table" /\ call.defaults /\ ~call.norm /\ Returned) =>
        \A i \in 0 .. MaxOf(seg), j \in 0 .. MaxOf(gt) :
            At(call.ret.value, i, j) = Int2Num(NumCounted(i, j, {0}, {0}))

\* a default call on a voxel with seg label 0 and a non-zero gt label, whose
\* entry is stored with value 0, and a counted voxel
C4_Witness ==
    /\ call.fn = "contingency_table" /\ call.defaults /\ ~call.norm /\ Returned
    /\ \E k \in Voxels :
           /\ seg[k] = 0 /\ gt[k] # 0
           /\ <<0, gt[k]>> \in DOMAIN call.ret.value.ent
           /\ At(call.ret.value, 0, gt[k]) = Zero
    /\ \E k \in Voxels : At(call.ret.value, seg[k], gt[k]) = One

\* voi(gt, seg): the same call with the two volumes exchanged
voi_exchanged == voi(gt, seg, voi_default_ignore_reconstruction,
                     voi_default_ignore_groundtruth)

\* C5 as stated: voi with the default ignore arguments, called in both
\* orders, returns the pair exchanged.
C5_SwapAsStated ==
    (call.fn = "voi" /\ call.defaults /\ Returned
       /\ voi_exchanged.outcome = "ok") =>
        /\ call.ret.value[1] = voi_exchanged.value[2]
        /\ call.ret.value[2] = voi_exchanged.value[1]

\* the two volumes have label 0 at the same voxels
SameZeros == \A k \in Voxels : (seg[k] = 0) <=> (gt[k] = 0)

\* C5 amended: for volumes that have label 0 at the same voxels, voi with
\* the default ignore arguments either raises in both orders (no voxel is
\* non-zero) or returns in both, with split(a, b) = merge(b, a) and
\* merge(a, b) = split(b, a).
C5_SwapOnSameZeros ==
    (call.fn = "voi" /\ call.defaults /\ SameZeros) =>
        /\ call.ret.outcome = voi_exchanged.outcome
        /\ Returned =>
               /\ call.ret.value[1] = voi_exchanged.value[2]
               /\ call.ret.value[2] = voi_exchanged.value[1]

\* a default call on volumes with the same zeros whose split and merge differ
C5_Witness ==
    /\ call.fn = "voi" /\ call.defaults /\ SameZeros /\ Returned
    /\ call.ret.value[1] # call.ret.value[2]

SomeCounted(is, ig) == \E k \in Voxels : Counted(k, is, ig)

\* among the counted voxels every seg label goes with one gt label
SegDeterminesGt(is, ig) ==
    \A k \in Voxels, u \in Voxels :
        (Counted(k, is, ig) /\ Counted(u, is, ig) /\ seg[k] = seg[u]) =>
            gt[k] = gt[u]

\* among the counted voxels every gt label goes with one seg label
GtDeterminesSeg(is, ig) ==
    \A k \in Voxels, u \in Voxels :
        (Counted(k, is, ig) /\ Counted(u, is, ig) /\ gt[k] = gt[u]) =>
            seg[k] = seg[u]

\* C6 as stated: on non-empty volumes voi returns merge 0 whenever every
\* counted seg label goes with one gt label, and split 0 whenever every
\* counted gt label goes with one seg label; voi(x, x) = (0, 0) for any x.
C6_ZeroErrorAsStated ==
    (call.fn = "voi" /\ Len(seg) > 0) =>
        /\ SegDeterminesGt(call.ignore_seg, call.ignore_gt) =>
               (Returned /\ call.ret.value[2] = Zero)
        /\ GtDeterminesSeg(call.ignore_seg, call.ignore_gt) =>
               (Returned /\ call.ret.value[1] = Zero)
        /\ (call.defaults /\ seg = gt) => call.ret = Ok(<<Zero, Zero>>)

\* C6 amended: when at least one voxel is counted, voi returns merge 0
\* whenever every counted seg label goes with one gt label, and split 0
\* whenever every counted gt label goes with one seg label; voi(x, x) =
\* (0, 0) for any volume x with a non-zero voxel.
C6_ZeroErrorWhenCounted ==
    (call.fn = "voi" /\ SomeCounted(call.ignore_seg, call.ignore_gt)) =>
        /\ SegDeterminesGt(call.ignore_seg, call.ignore_gt) =>
               (Returned /\ call.ret.value[2] = Zero)
        /\ GtDeterminesSeg(call.ignore_seg, call.ignore_gt) =>
               (Returned /\ call.ret.value[1] = Zero)
        /\ (call.defaults /\ seg = gt) => call.ret = Ok(<<Zero, Zero>>)

\* an over-segmentation: merge 0 and a positive split
C6_Witness ==
    /\ call.fn = "voi" /\ Returned
    /\ SegDeterminesGt(call.ignore_seg, call.ignore_gt)
    /\ ~GtDeterminesSeg(call.ignore_seg, call.ignore_gt)
    /\ call.ret.value[2] = Zero
    /\ Sign(call.ret.value[1]) = 1

\* the numbers of counted voxels with a seg label, with a gt label, in all
CountSeg(i, is, ig) ==
    Cardinality({k \in Voxels : seg[k] = i /\ Counted(k, is, ig)})

CountGt(j, is, ig) ==
    Cardinality({k \in Voxels : gt[k] = j /\ Counted(k, is, ig)})

CountAll(is, ig) == Cardinality({k \in Voxels : Counted(k, is, ig)})

\* P log2 P for P = n / d, with 0 log2 0 = 0
PLogP(n, d) == IF n = 0 THEN Zero ELSE Mul(Rat(n, d), Log2(Rat(n, d)))

\* H(X|Y) = -sum_j py[j] * sum_i P(x=i|y=j) log2 P(x=i|y=j), X the candidate
EntropyXGivenY(is, ig) ==
    Neg(SumNum([j \in Labels |->
                   IF CountGt(j, is, ig) = 0 THEN Zero
                   ELSE Mul(Rat(CountGt(j, is, ig), CountAll(is, ig)),
                            SumNum([i \in Labels |->
                                       PLogP(NumCounted(i, j, is, ig),
                                             CountGt(j, is, ig))], Labels))],
               Labels))

\* H(Y|X) = -sum_i px[i] * sum_j P(y=j|x=i) log2 P(y=j|x=i)
EntropyYGivenX(is, ig) ==
    Neg(SumNum([i \in Labels |->
                   IF CountSeg(i, is, ig) = 0 THEN Zero
                   ELSE Mul(Rat(CountSeg(i, is, ig), CountAll(is, ig)),
                            SumNum([j \in Labels |->
                                       PLogP(NumCounted(i, j, is, ig),
                                             CountSeg(i, is, ig))], Labels))],
               Labels))

\* C7: voi returns (split, merge) = (H(X|Y), H(Y|X)) of the counted voxels,
\* X the candidate and Y the ground truth.
C7_SplitThenMerge ==
    (call.fn = "voi" /\ Returned) =>
        /\ call.ret.value[1] = EntropyXGivenY(call.ignore_seg, call.ignore_gt)
        /\ call.ret.value[2] = EntropyYGivenX(call.ignore_seg, call.ignore_gt)

\* seg = [1, 2] against gt = [1, 1] (one row of the 2x2 scenario, the same
\* proportions): split 1 bit, merge 0
C7_Witness ==
    /\ call.fn = "voi" /\ call.defaults
    /\ seg = <<1, 2>> /\ gt = <<1, 1>>
    /\ call.ret = Ok(<<One, Zero>>)

RECURSIVE SumInt(_, _)
SumInt(f, S) ==
    IF S = {} THEN 0
    ELSE LET e == CHOOSE x \in S : TRUE
         IN  f[e] + SumInt(f, S \ {e})

Square(n) == n * n

Foreground == Labels \ {0}

\* the sum over the gt labels k >= 1 of (number of voxels with gt = k)^2
RandSumA ==
    SumInt([l \in Foreground |->
               Square(Cardinality({k \in Voxels : gt[k] = l}))], Foreground)

\* c: the number of voxels with gt >= 1 and seg = 0
RandUnlabelled == Cardinality({k \in Voxels : gt[k] >= 1 /\ seg[k] = 0})

\* the sum over the seg labels j >= 1 of (number of voxels with seg = j and
\* gt >= 1)^2, plus c / N
RandSumB ==
    Add(Int2Num(SumInt([j \in Foreground |->
                           Square(Cardinality({k \in Voxels :
                                                 seg[k] = j /\ gt[k] >= 1}))],
                       Foreground)),
        Rat(RandUnlabelled, Len(seg)))

\* the sum over k >= 1, j >= 1 of p[k, j]^2, plus c / N
RandSumAB ==
    Add(Int2Num(SumInt([lj \in Foreground \X Foreground |->
                           Square(Cardinality({k \in Voxels :
                                                 gt[k] = lj[1] /\ seg[k] = lj[2]}))],
                       Foreground \X Foreground)),
        Rat(RandUnlabelled, Len(seg)))

RandPrecision == Div(RandSumAB, RandSumB)

RandRecall == Div(RandSumAB, Int2Num(RandSumA))

RandError ==
    Sub(One, Div(Mul(Mul(Int2Num(2), RandPrecision), RandRecall),
                 Add(RandPrecision, RandRecall)))

\* C8: on non-empty volumes adapted_rand returns error = 1 - 2pr/(p + r),
\* p = sumAB/sumB and r = sumAB/sumA from the sums above (gt label 0 dropped
\* from every sum, seg label 0 kept in sumA), alone or, with all_stats, as
\* (error, precision, recall).
C8_AdaptedRandFormula ==
    (call.fn = "adapted_rand" /\ Len(seg) > 0) =>
        /\ Returned
        /\ call.all_stats =>
               call.ret.value = <<RandError, RandPrecision, RandRecall>>
        /\ ~call.all_stats => call.ret.value = RandError

\* all three statistics of a pair with a voxel the candidate leaves
\* unlabelled (c > 0) and a voxel both label
C8_Witness ==
    /\ call.fn = "adapted_rand" /\ call.all_stats /\ Returned
    /\ RandUnlabelled > 0
    /\ \E k \in Voxels : gt[k] >= 1 /\ seg[k] >= 1
    /\ IsRat(call.ret.value[1]) /\ Sign(call.ret.value[1]) = 1

\* C9: adapted_rand(x, x, all_stats=True) = (0, 1, 1) for every volume x
\* that is not all zero.
C9_PerfectMatch ==
    (/\ call.fn = "adapted_rand" /\ call.all_stats
     /\ seg = gt /\ \E k \in Voxels : seg[k] # 0) =>
        call.ret = Ok(<<Zero, One, One>>)

\* a volume with two voxels of one label compared with itself
C9_Witness ==
    /\ call.fn = "adapted_rand" /\ call.all_stats /\ seg = gt
    /\ \E k \in Voxels, u \in Voxels : k # u /\ seg[k] = seg[u] /\ seg[k] # 0
    /\ call.ret = Ok(<<Zero, One, One>>)

\* C10: when the ground truth has no label >= 1, so that sumA = 0,
\* adapted_rand raises and returns no number.
C10_NoForegroundRaises ==
    (/\ call.fn = "adapted_rand" /\ Len(seg) > 0
     /\ \A k \in Voxels : gt[k] = 0) => Raised

\* a threshold outside the open interval (0, 1)
BadThreshold(t) == ~Less(Zero, t) \/ ~Less(t, One)

\* C11: get_binary_jaccard raises and returns no score array when its
\* threshold list holds, at any position, a value t <= 0 or t >= 1 (0.0 and
\* 1.0 included); when every threshold lies strictly inside (0, 1) it returns
\* an array with one row per threshold, row k being the row a call with the
\* single threshold thres[k] returns.
C11_ThresholdsInOpenInterval ==
    call.fn = "get_binary_jaccard" =>
        IF \E k \in DOMAIN call.thres : BadThreshold(call.thres[k])
        THEN Raised
        ELSE /\ Returned
             /\ Len(call.ret.value) = Len(call.thres)
             /\ \A k \in DOMAIN call.thres :
                    Ok(<<call.ret.value[k]>>) =
                        get_binary_jaccard(Probabilities(seg), gt,
                                           <<call.thres[k]>>)

\* a good threshold first and the threshold 1.0 second: the call raises
C11_Witness ==
    /\ call.fn = "get_binary_jaccard"
    /\ Len(seg) > 0
    /\ Len(call.thres) = 2
    /\ ~BadThreshold(call.thres[1])
    /\ call.thres[2] = One
    /\ Raised

\* the call was made on volumes under shapes of their own
OnReshaped == InCall /\ "seg_shape" \in DOMAIN call

\* C12: whenever the candidate and the ground truth differ in shape, equal
\* numbers of elements included, contingency_table, voi and adapted_rand
\* raise and return no value.
C12_ShapeMismatchRaises ==
    (OnReshaped /\ call.seg_shape # call.gt_shape) => Raised

\* the functions that take an in_place argument
InPlaceFunctions == {"divide_rows", "divide_columns", "xlogx"}

\* the call in the next state was made on a matrix of the caller
OnMatrix ==
    \/ call'.fn = "vi_tables" /\ call'.mode = "table"
    \/ call'.fn \in InPlaceFunctions /\ ~call'.in_place

\* C13: no call changes what the caller holds: every step leaves the two
\* volumes and the shared default lists as they were; vi_tables on a
\* pre-built table leaves the table as it was, and the same call repeated on
\* it returns the same result; divide_rows, divide_columns and xlogx with
\* in_place=False leave their input matrix as it was.
C13_CallsArePure ==
    [][/\ seg' = seg
       /\ gt' = gt
       /\ default_lists' = default_lists
       /\ OnMatrix => call'.x_after = call'.x
       /\ (call'.fn = "vi_tables" /\ call'.mode = "table") =>
              vi_tables(call'.x_after, None, default_lists'.vi_tables.ignore_x,
                        default_lists'.vi_tables.ignore_y) = call'.ret]_vars

\* vi_tables returned on a table of counts: pxy is another matrix than the
\* caller's, and the caller's table still holds the counts
C13_Witness ==
    /\ call.fn = "vi_tables" /\ call.mode = "table" /\ ~call.norm
    /\ Returned
    /\ call.ret.value[1] # call.x
    /\ call.x_after = call.x
    /\ Len(seg) > 1

\* v * log2(v) with 0 * log2(0) = 0
XLog2X(v) == IF IsZero(v) THEN Zero ELSE Mul(v, Log2(v))

\* C14: xlogx maps every zero element of its input, explicitly stored zeros
\* of a sparse matrix included, to exactly 0 and every positive element v to
\* v * log2(v); no nan or infinity appears in its result or in the per-label
\* sums lpygx and lpxgy of vi_tables.
C14_XlogxOfInput ==
    /\ call.fn = "xlogx" =>
           /\ Returned
           /\ call.ret.value.shape = call.x.shape
           /\ DOMAIN call.ret.value.ent = DOMAIN call.x.ent
           /\ \A ij \in DOMAIN call.x.ent :
                  call.ret.value.ent[ij] = XLog2X(call.x.ent[ij])
    /\ (call.fn = "vi_tables" /\ Returned) =>
           /\ \A i \in DOMAIN call.ret.value[6] : IsFin(call.ret.value[6][i])
           /\ \A j \in DOMAIN call.ret.value[7] : IsFin(call.ret.value[7][j])

\* the ground truth has a voxel with a label >= 1
GtForeground == \E k \in Voxels : gt[k] >= 1

\* 0 < x
Positive(x) == IsRat(x) /\ Less(Zero, x)

\* 0 < x <= 1
InUnitLeftOpen(x) == Positive(x) /\ ~Less(One, x)

\* 0 <= x < 1
InUnitRightOpen(x) == IsRat(x) /\ ~Less(x, Zero) /\ Less(x, One)

\* C15: when the ground truth has at least one voxel with a label >= 1, the
\* divisors sumA, sumB and precision + recall of adapted_rand are strictly
\* positive, precision and recall lie in (0, 1] and the error returned lies
\* in [0, 1).
C15_AdaptedRandRanges ==
    (call.fn = "adapted_rand" /\ GtForeground) =>
        /\ Returned
        /\ RandSumA > 0
        /\ Positive(RandSumB)
        /\ call.all_stats =>
               /\ InUnitRightOpen(call.ret.value[1])
               /\ InUnitLeftOpen(call.ret.value[2])
               /\ InUnitLeftOpen(call.ret.value[3])
               /\ Positive(Add(call.ret.value[2], call.ret.value[3]))
        /\ ~call.all_stats => InUnitRightOpen(call.ret.value)

\* all three statistics of a pair with a split ground-truth label: recall
\* below 1 and an error strictly between 0 and 1
C15_Witness ==
    /\ call.fn = "adapted_rand" /\ call.all_stats /\ GtForeground /\ Returned
    /\ Less(call.ret.value[3], One)
    /\ Positive(call.ret.value[1])
    /\ InUnitRightOpen(call.ret.value[1])

=============================================================================
